---- MODULE Spec2Model ----
(***************************************************************************)
(* tcg-python: the Chinese-postman tour of a directed multigraph.          *)
(*                                                                         *)
(*   core/shortest_paths.py        ShortestPaths       (Floyd-Warshall)     *)
(*   core/duplications_finder.py   DuplicationsFinder  (bipartite matching) *)
(*   core/chinese_postman_path.py  ChinesePostmanPath  (duplicate + DFS)    *)
(*   api/app.py                    the /parse handler  (build graph, split) *)
(*                                                                         *)
(* A networkx MultiDiGraph is modelled as the sequence of its edges        *)
(* <<u, v, key>> in insertion order: an edge is identified by (u, v, key), *)
(* nodes and neighbours are enumerated in order of first insertion, the    *)
(* order under which the tour of the doctest of ChinesePostmanPath comes   *)
(* out edge for edge.  remove_edge(u, v), given no key, takes out any one  *)
(* of the edges from u to v; eppstein_matching returns any matching of     *)
(* greatest cardinality.                                                   *)
(***************************************************************************)
EXTENDS Integers, Sequences, FiniteSets, TLC

VARIABLES
    caller,         \* "parse": the /parse handler; "direct": ChinesePostmanPath(g, start, end); "sp": ShortestPaths(g)
    edges,          \* the request's edge list, pairs <<from_node, to_node>> (app.py data['edges'])
    g,              \* the MultiDiGraph, mutated in place
    start,          \* ChinesePostmanPath.start
    end,            \* ChinesePostmanPath.end
    distances,      \* ShortestPaths.distances
    paths,          \* ShortestPaths.paths
    left_set,       \* DuplicationsFinder.left_set
    right_set,      \* DuplicationsFinder.right_set
    matching,       \* DuplicationsFinder.matching, as the sequence of its items <<src, dests>>
    shortest_tour,  \* ChinesePostmanPath.shortest_tour
    resp,           \* the handler's response
    query,          \* the last query made of a ShortestPaths object and its result
    orig,           \* history: the graph as it was handed to ChinesePostmanPath
    removed,        \* history: the edge remove_edge took out
    err,            \* the exception raised, "" when none
    pc              \* position in the pipeline

vars == <<caller, edges, g, start, end, distances, paths, left_set, right_set,
          matching, shortest_tour, resp, query, orig, removed, err, pc>>

----------------------------------------------------------------------------
(* Bounds of the model. *)

\* longest edge list of a request or of a directly constructed graph
MaxEdges == 5

\* largest first key a direct caller gives its edges (keys KeyBase .. KeyBase+n-1)
MaxKeyBase == 1

\* longest edge list of a graph handed to ShortestPaths alone
MaxSPEdges == 5

\* Python's None where an integer is expected (get_shortest_path_length)
None == -1

\* Python's None where a list of nodes is expected (get_shortest_path)
NonePath == <<>>

\* Python's None where a tour is expected (find_tour_recursive_helper)
NoneTour == [none |-> TRUE, path |-> <<>>]

SomeTour(p) == [none |-> FALSE, path |-> p]

----------------------------------------------------------------------------
(* Loops.  A loop of the program is run as a machine: its state is a record   *)
(* c that names the loop, holds what the loop reads and writes, and has a     *)
(* field done; Body(c), defined once every loop is, is c after one iteration. *)
(* Iterate halves the work, so that the evaluation nests only as deep as the  *)
(* logarithm of the number of iterations.                                     *)

RECURSIVE Body(_)

RECURSIVE Iterate(_, _)
\* c after at most 2^f iterations; none is made once c.done
Iterate(c, f) ==
    IF c.done THEN c
    ELSE IF f = 0 THEN Body(c)
    ELSE Iterate(Iterate(c, f - 1), f - 1)

RECURSIVE RunFrom(_, _)
RunFrom(c, f) ==
    IF c.done THEN c ELSE RunFrom(Iterate(c, f), f + 2)

\* while not c.done: c = Body(c)
Run(c) == RunFrom(c, 0)

----------------------------------------------------------------------------
(* networkx.MultiDiGraph, as far as the program uses it. *)

\* the sequence s itself, held as a tuple: a sequence written [i \in 1..n |-> e]
\* is otherwise computed again at each application
Tuple(s) == SubSeq(s, 1, Len(s))

\* s without repetitions, first occurrences kept
Dedup(s) ==
    LET first == SelectSeq([i \in 1..Len(s) |-> i],
                           LAMBDA i : \A j \in 1..(i - 1) : s[j] # s[i])
    IN  Tuple([k \in 1..Len(first) |-> s[first[k]]])

\* acc = acc + ss[i]
FlattenStep(c) ==
    [c EXCEPT !.acc = c.acc \o c.ss[c.i], !.i = c.i + 1, !.done = c.i + 1 > Len(c.ss)]

\* the concatenation of the sequences of ss
Flatten(ss) ==
    Run([loop |-> "flatten", ss |-> Tuple(ss), acc |-> <<>>, i |-> 1,
         done |-> Len(ss) = 0]).acc

Range(s) == {s[i] : i \in 1..Len(s)}

\* g.nodes(): add_edge(u, v) inserts u, then v, when absent
Nodes(gr) ==
    Dedup(Tuple([i \in 1..(2 * Len(gr)) |->
                    IF i % 2 = 1 THEN gr[(i + 1) \div 2][1] ELSE gr[i \div 2][2]]))

\* g.size(): the number of edges
Size(gr) == Len(gr)

\* g.successors(n): the neighbours of n, each once
Successors(gr, n) ==
    LET out == SelectSeq(gr, LAMBDA e : e[1] = n)
    IN  Dedup(Tuple([i \in 1..Len(out) |-> out[i][2]]))

\* g.out_edges(n, keys=True, data=True): neighbour by neighbour, key by key
OutEdges(gr, n) ==
    LET succ == Successors(gr, n)
    IN  Flatten([j \in 1..Len(succ) |->
                    SelectSeq(gr, LAMBDA e : e[1] = n /\ e[2] = succ[j])])

InDegree(gr, n) == Cardinality({i \in 1..Len(gr) : gr[i][2] = n})

OutDegree(gr, n) == Cardinality({i \in 1..Len(gr) : gr[i][1] = n})

\* g.has_edge(u, v)
HasEdge(gr, u, v) == \E i \in 1..Len(gr) : gr[i][1] = u /\ gr[i][2] = v

\* g.add_edge(u, v, key=k): a new edge, unless u -> v already has one with that key
AddEdge(gr, u, v, k) ==
    IF \E i \in 1..Len(gr) : gr[i] = <<u, v, k>> THEN gr ELSE Append(gr, <<u, v, k>>)

\* the graph without its i-th edge
RemoveAt(gr, i) == Tuple([j \in 1..(Len(gr) - 1) |-> IF j < i THEN gr[j] ELSE gr[j + 1]])

----------------------------------------------------------------------------
(* ShortestPaths *)

\* no node: the value of a key that a dictionary of predecessors does not hold
NoNode == ""

\* the tables: d[src] and p[src] are dictionaries keyed by node; a key a dictionary
\* does not hold is given None (distances) or NoNode (paths)
EmptyTables(ns) ==
    [d |-> [n \in Range(ns) |-> [m \in Range(ns) |-> None]],
     p |-> [n \in Range(ns) |-> [m \in Range(ns) |-> NoNode]]]

\* k in self.distances[src]
InDistances(d, src, k) == d[src][k] # None

\* k in self.paths[src]
InPaths(p, src, k) == p[src][k] # NoNode

\* self.distances[src][dst] = dv; self.paths[src][dst] = pv
SetEntry(T, src, dst, dv, pv) ==
    [d |-> [T.d EXCEPT ![src][dst] = dv],
     p |-> [T.p EXCEPT ![src][dst] = pv]]

\* "get first pass", one iteration of the inner loop: the j-th child of the i-th
\* node is entered as a direct edge, a self loop is skipped
FirstPassStep(c) ==
    LET node == c.ns[c.i]
        children == Successors(c.gr, node)
    IN  IF c.j > Len(children)
        THEN [c EXCEPT !.i = c.i + 1, !.j = 1, !.done = c.i + 1 > Len(c.ns)]
        ELSE [c EXCEPT !.T = IF children[c.j] = node THEN c.T
                             ELSE SetEntry(c.T, node, children[c.j], 1, node),
                       !.j = c.j + 1]

\* "initialize maps" and "get first pass"
FirstPass(gr, ns) ==
    Run([loop |-> "first_pass", gr |-> gr, ns |-> ns, T |-> EmptyTables(ns),
         i |-> 1, j |-> 1, done |-> Len(ns) = 0]).T

\* a mutant of Relax: the predecessor of dst is taken to be mid itself
RelaxPredIsMid(T, mid, src, dst) ==
    IF src = dst THEN T
    ELSE IF ~InDistances(T.d, mid, dst) THEN T
    ELSE IF InDistances(T.d, src, dst) /\ T.d[src][dst] <= T.d[src][mid] + T.d[mid][dst] THEN T
    ELSE SetEntry(T, src, dst, T.d[src][mid] + T.d[mid][dst], mid)

\* a mutant of Relax: a distance already held is never improved
RelaxNoImprove(T, mid, src, dst) ==
    IF src = dst THEN T
    ELSE IF ~InDistances(T.d, mid, dst) THEN T
    ELSE IF InDistances(T.d, src, dst) THEN T
    ELSE SetEntry(T, src, dst, T.d[src][mid] + T.d[mid][dst], T.p[mid][dst])

\* the body of the innermost loop of parse
Relax(T, mid, src, dst) ==
    IF src = dst THEN T
    ELSE IF ~InDistances(T.d, mid, dst) THEN T
    ELSE IF InDistances(T.d, src, dst) /\ T.d[src][dst] <= T.d[src][mid] + T.d[mid][dst] THEN T
    ELSE SetEntry(T, src, dst, T.d[src][mid] + T.d[mid][dst], T.p[mid][dst])

\* the src loop moves on to its next node, the mid loop when src has run out
NextSrc(c) ==
    IF c.j < Len(c.ns) THEN [c EXCEPT !.j = c.j + 1, !.k = 1]
    ELSE [c EXCEPT !.i = c.i + 1, !.j = 1, !.k = 1, !.done = c.i + 1 > Len(c.ns)]

\* "iterate over nodes", one iteration of the innermost loop: mid = ns[i],
\* src = ns[j], end = ns[k]; the test of the src loop is made on entering it
ParseStep(c) ==
    IF c.k = 1 /\ ~InDistances(c.T.d, c.ns[c.j], c.ns[c.i]) THEN NextSrc(c)
    ELSE IF c.k < Len(c.ns)
         THEN [c EXCEPT !.T = Relax(c.T, c.ns[c.i], c.ns[c.j], c.ns[c.k]), !.k = c.k + 1]
         ELSE NextSrc([c EXCEPT !.T = Relax(c.T, c.ns[c.i], c.ns[c.j], c.ns[c.k])])

\* ShortestPaths.parse: the tables of graph gr
ShortestPaths_parse(gr) ==
    LET ns == Nodes(gr)
    IN  Run([loop |-> "parse", ns |-> ns, T |-> FirstPass(gr, ns),
             i |-> 1, j |-> 1, k |-> 1, done |-> Len(ns) = 0]).T

\* ShortestPaths.get_shortest_path_length, for nodes of the graph
get_shortest_path_length(d, u, v) ==
    IF ~InDistances(d, u, v) THEN None ELSE d[u][v]

\* the while loop of get_shortest_path, one iteration; fuel stops a walk that
\* would never end
FollowStep(c) ==
    IF ~InPaths(c.p, c.u, c.cur) THEN [c EXCEPT !.done = TRUE]
    ELSE IF c.fuel = 0 THEN [c EXCEPT !.ret = <<"diverges">>, !.done = TRUE]
    ELSE [c EXCEPT !.ret = Append(c.ret, c.p[c.u][c.cur]), !.cur = c.p[c.u][c.cur],
                   !.fuel = c.fuel - 1]

Reverse(s) == Tuple([i \in 1..Len(s) |-> s[Len(s) + 1 - i]])

\* ShortestPaths.get_shortest_path, for nodes of the graph
get_shortest_path(p, u, v) ==
    LET ret == Run([loop |-> "get_shortest_path", p |-> p, u |-> u, ret |-> <<v>>,
                    cur |-> v, fuel |-> Cardinality(DOMAIN p) + 1, done |-> FALSE]).ret
    IN  IF ret[Len(ret)] # u THEN NonePath ELSE Reverse(ret)

----------------------------------------------------------------------------
(* DuplicationsFinder *)

\* a mutant of DegreeSurplus: the two degrees are taken the other way round
DegreeSurplusSwapped(gr, n) == InDegree(gr, n) - OutDegree(gr, n)

\* Step 1: degree_surplus[node] = out_degree - in_degree
DegreeSurplus(gr, n) == OutDegree(gr, n) - InDegree(gr, n)

\* the copies (node, 0), (node, 1), ... of one node
Copies(n, count) == Tuple([i \in 1..count |-> <<n, i - 1>>])

\* Step 2: a node of negative surplus goes |surplus| times into left_set
LeftSet(gr) ==
    LET ns == Nodes(gr)
    IN  Flatten([i \in 1..Len(ns) |->
                    IF DegreeSurplus(gr, ns[i]) < 0
                    THEN Copies(ns[i], 0 - DegreeSurplus(gr, ns[i])) ELSE <<>>])

\* Step 2: a node of positive surplus goes surplus times into right_set
RightSet(gr) ==
    LET ns == Nodes(gr)
    IN  Flatten([i \in 1..Len(ns) |->
                    IF DegreeSurplus(gr, ns[i]) > 0
                    THEN Copies(ns[i], DegreeSurplus(gr, ns[i])) ELSE <<>>])

RECURSIVE Perms(_)
\* the orderings of the set S
Perms(S) ==
    IF S = {} THEN {<<>>}
    ELSE UNION {{<<x>> \o q : q \in Perms(S \ {x})} : x \in S}

\* Steps 3 and 4: the bipartite graph joins every left copy to every right copy,
\* whatever the weight, and eppstein_matching returns a matching of greatest
\* cardinality of it: here one of the perfect matchings, m[i] being the index
\* in right_set of the partner of left_set[i]
Matchings(left, right) == Perms(1..Len(right))

\* self.matching: for each node of left_set, in order, the nodes matched with its copies
MatchingItems(left, right, m) ==
    LET srcs == Dedup(Tuple([i \in 1..Len(left) |-> left[i][1]]))
        matched == Tuple([i \in 1..Len(left) |-> <<left[i][1], right[m[i]][1]>>])
        DestsOf(src) == LET prs == SelectSeq(matched, LAMBDA pr : pr[1] = src)
                        IN  Tuple([j \in 1..Len(prs) |-> prs[j][2]])
    IN  Tuple([k \in 1..Len(srcs) |-> <<srcs[k], DestsOf(srcs[k])>>])

\* the pairs (src, dest) in the order duplicate_paths visits them
MatchedPairs(items) ==
    Flatten([k \in 1..Len(items) |->
                [j \in 1..Len(items[k][2]) |-> <<items[k][1], items[k][2][j]>>]])

----------------------------------------------------------------------------
(* ChinesePostmanPath *)

\* the loops of duplicate_paths, one iteration: the i-th edge of the shortest
\* path of the k-th matched pair is inserted with the key g.size(); len(None)
\* raises TypeError
DuplicateStep(c) ==
    LET path == get_shortest_path(c.p, c.pairs[c.k][1], c.pairs[c.k][2])
    IN  IF path = NonePath THEN [c EXCEPT !.err = "TypeError", !.done = TRUE]
        ELSE IF c.i > Len(path) - 1
             THEN [c EXCEPT !.k = c.k + 1, !.i = 1, !.done = c.k + 1 > Len(c.pairs)]
             ELSE [c EXCEPT !.g = AddEdge(c.g, path[c.i], path[c.i + 1], Size(c.g)),
                            !.i = c.i + 1]

\* duplicate_paths over the matched pairs: the graph it leaves and the error raised
DuplicatePairs(gr, p, pairs) ==
    Run([loop |-> "duplicate_paths", p |-> p, pairs |-> pairs, g |-> gr,
         k |-> 1, i |-> 1, err |-> "", done |-> Len(pairs) = 0])

\* the indices of the edges remove_edge('end', 'start') may take out: it is given
\* no key, and removes one edge between the two nodes
RemovableEdges(gr) == {i \in 1..Len(gr) : gr[i][1] = "end" /\ gr[i][2] = "start"}

Keys(path) == {path[i][3] : i \in 1..Len(path)}

\* a mutant of TourComplete: the walk stops one edge short
TourOneShort(gr, path) == Len(path) >= Size(gr) - 1

\* the base case of find_tour_recursive_helper
TourComplete(gr, path) == Len(path) = Size(gr)

\* a call of find_tour_recursive_helper: its arguments, the out edges its for
\* loop runs over and the index of the one it has come to
Frame(gr, cur_node, path, edge_keys) ==
    [cur_node |-> cur_node, path |-> path, edge_keys |-> edge_keys,
     items |-> OutEdges(gr, cur_node), i |-> 1]

\* one step of the innermost call: it returns its path (and so does every call
\* below it), or returns None to its caller, whose loop goes on, or skips an
\* edge already walked, or calls itself on the next edge
HelperStep(c) ==
    LET top == c.stack[Len(c.stack)]
        callers == SubSeq(c.stack, 1, Len(c.stack) - 1)
    IN  IF TourComplete(c.gr, top.path)
        THEN [c EXCEPT !.result = SomeTour(top.path), !.done = TRUE]
        ELSE IF top.i > Len(top.items)
        THEN IF callers = <<>>
             THEN [c EXCEPT !.result = NoneTour, !.done = TRUE]
             ELSE [c EXCEPT !.stack = [callers EXCEPT ![Len(callers)].i = @ + 1]]
        ELSE IF top.items[top.i][3] \in top.edge_keys
        THEN [c EXCEPT !.stack[Len(c.stack)].i = @ + 1]
        ELSE [c EXCEPT !.stack =
                 Append(c.stack,
                        Frame(c.gr, top.items[top.i][2], Append(top.path, top.items[top.i]),
                              top.edge_keys \cup {top.items[top.i][3]}))]

\* ChinesePostmanPath.find_tour_recursive_helper, the call stack made explicit
find_tour_recursive_helper(gr, cur_node, path, edge_keys) ==
    Run([loop |-> "find_tour_recursive_helper", gr |-> gr,
         stack |-> <<Frame(gr, cur_node, path, edge_keys)>>, result |-> NoneTour,
         done |-> FALSE]).result

----------------------------------------------------------------------------
(* The /parse handler *)

\* for idx, edge in enumerate(data['edges']): one iteration
AddEdgesStep(c) ==
    [c EXCEPT !.g = AddEdge(c.g, c.list[c.i][1], c.list[c.i][2], c.i - 1),
              !.i = c.i + 1, !.done = c.i + 1 > Len(c.list)]

\* mdg = nx.MultiDiGraph(), then mdg.add_edge(from_node, to_node, key=idx) for every edge
AddEdges(list) ==
    Run([loop |-> "add_edges", list |-> list, g |-> <<>>, i |-> 1,
         done |-> Len(list) = 0]).g

\* if not mdg.has_edge('end', 'start'): mdg.add_edge('end', 'start', key=mdg.size())
WithReturnEdge(gr) ==
    IF HasEdge(gr, "end", "start") THEN gr ELSE AddEdge(gr, "end", "start", Size(gr))

\* for item in sp.shortest_tour: one iteration
SplitStep(c) ==
    [c EXCEPT !.paths = IF c.tour[c.i][1] = "end" /\ c.tour[c.i][2] = "start"
                        THEN Append(c.paths, <<>>)
                        ELSE [c.paths EXCEPT ![Len(c.paths)] =
                                 Append(@, <<c.tour[c.i][1], c.tour[c.i][2]>>)],
              !.i = c.i + 1, !.done = c.i + 1 > Len(c.tour)]

\* paths = [[]], then a new list at every end -> start edge of the tour
SplitTour(tour) ==
    Run([loop |-> "split", tour |-> tour, paths |-> << <<>> >>, i |-> 1,
         done |-> Len(tour) = 0]).paths

\* one iteration of the loop c is in
Body(c) ==
    CASE c.loop = "flatten" -> FlattenStep(c)
      [] c.loop = "first_pass" -> FirstPassStep(c)
      [] c.loop = "parse" -> ParseStep(c)
      [] c.loop = "get_shortest_path" -> FollowStep(c)
      [] c.loop = "duplicate_paths" -> DuplicateStep(c)
      [] c.loop = "find_tour_recursive_helper" -> HelperStep(c)
      [] c.loop = "add_edges" -> AddEdgesStep(c)
      [] c.loop = "split" -> SplitStep(c)

----------------------------------------------------------------------------
(* The graphs the model is run on. *)

\* the edges a ShortestPaths graph is drawn from, over five nodes: a long way
\* start -> a -> b -> end, a short way start -> c -> end, ways back, a self loop
SPPairs ==
    << <<"start", "a">>, <<"a", "b">>, <<"b", "end">>, <<"start", "c">>,
       <<"c", "end">>, <<"end", "start">>, <<"a", "a">>, <<"b", "a">>,
       <<"c", "b">>, <<"a", "end">>, <<"end", "c">>, <<"b", "start">> >>

\* the nodes a query may name; "blah" is in none of the graphs
QueryNodes == {"start", "a", "b", "c", "end", "blah"}

RECURSIVE SortedIdx(_, _, _)
\* the non-decreasing sequences of n indices in lo..P
SortedIdx(P, n, lo) ==
    IF n = 0 THEN {<<>>}
    ELSE UNION {{<<i>> \o s : s \in SortedIdx(P, n - 1, i)} : i \in lo..P}

\* the edge lists of at most maxLen edges drawn from pairs, in the order of pairs
EdgeLists(pairs, maxLen) ==
    UNION {{Tuple([i \in 1..n |-> pairs[s[i]]]) : s \in SortedIdx(Len(pairs), n, 1)} :
           n \in 0..maxLen}

\* the graph a caller builds from an edge list with the keys base, base+1, ...
Keyed(list, base) ==
    Tuple([i \in 1..Len(list) |-> <<list[i][1], list[i][2], base + i - 1>>])

NoQuery == [op |-> "", u |-> "", v |-> "", length |-> None, path |-> NonePath]

NoResp == [success |-> FALSE, paths |-> <<>>, error |-> ""]

NoEdge == <<"", "", None>>

----------------------------------------------------------------------------
(* A ShortestPaths object on its own: construction, then queries. *)

InitSP ==
    /\ caller = "sp"
    /\ edges = <<>>
    /\ g \in {Keyed(l, 0) : l \in EdgeLists(SPPairs, MaxSPEdges)}
    /\ start = "start"
    /\ end = "end"
    /\ distances = <<>>
    /\ paths = <<>>
    /\ left_set = <<>>
    /\ right_set = <<>>
    /\ matching = <<>>
    /\ shortest_tour = NoneTour
    /\ resp = NoResp
    /\ query = NoQuery
    /\ orig = <<>>
    /\ removed = NoEdge
    /\ err = ""
    /\ pc = "sp_new"

\* ShortestPaths.__init__ -> recreate -> parse
ShortestPaths_init ==
    /\ pc = "sp_new"
    /\ IF Size(g) = 0
       THEN /\ err' = "MultiDiGraph is empty"
            /\ pc' = "raised"
            /\ UNCHANGED <<distances, paths>>
       ELSE /\ distances' = ShortestPaths_parse(g).d
            /\ paths' = ShortestPaths_parse(g).p
            /\ pc' = "sp_ready"
            /\ err' = ""
    /\ UNCHANGED <<caller, edges, g, start, end, left_set, right_set, matching,
                   shortest_tour, resp, query, orig, removed>>

\* sp.get_shortest_path_length(u, v)
QueryLength ==
    /\ pc = "sp_ready"
    /\ \E u \in QueryNodes, v \in QueryNodes :
         IF u \notin Range(Nodes(g))
         THEN /\ err' = "start node not contained in graph"
              /\ query' = [NoQuery EXCEPT !.op = "length", !.u = u, !.v = v]
         ELSE IF v \notin Range(Nodes(g))
         THEN /\ err' = "end node not contained in graph"
              /\ query' = [NoQuery EXCEPT !.op = "length", !.u = u, !.v = v]
         ELSE /\ err' = ""
              /\ query' = [NoQuery EXCEPT !.op = "length", !.u = u, !.v = v,
                                          !.length = get_shortest_path_length(distances, u, v)]
    /\ pc' = "sp_queried"
    /\ UNCHANGED <<caller, edges, g, start, end, distances, paths, left_set, right_set,
                   matching, shortest_tour, resp, orig, removed>>

\* sp.get_shortest_path(u, v)
QueryPath ==
    /\ pc = "sp_ready"
    /\ \E u \in QueryNodes, v \in QueryNodes :
         IF u \notin Range(Nodes(g))
         THEN /\ err' = "start node not contained in graph"
              /\ query' = [NoQuery EXCEPT !.op = "path", !.u = u, !.v = v]
         ELSE IF v \notin Range(Nodes(g))
         THEN /\ err' = "end node not contained in graph"
              /\ query' = [NoQuery EXCEPT !.op = "path", !.u = u, !.v = v]
         ELSE /\ err' = ""
              /\ query' = [NoQuery EXCEPT !.op = "path", !.u = u, !.v = v,
                                          !.path = get_shortest_path(paths, u, v)]
    /\ pc' = "sp_queried"
    /\ UNCHANGED <<caller, edges, g, start, end, distances, paths, left_set, right_set,
                   matching, shortest_tour, resp, orig, removed>>

NextSP == ShortestPaths_init \/ QueryLength \/ QueryPath

SpecSP == InitSP /\ [][NextSP]_vars

----------------------------------------------------------------------------
(* The tour pipeline: the /parse handler, or a direct caller, constructs a       *)
(* ChinesePostmanPath, whose __init__ runs find_tour.                            *)

\* the edges a request or a directly built graph is drawn from
Pairs ==
    << <<"start", "a">>, <<"a", "b">>, <<"b", "end">>, <<"end", "start">>,
       <<"a", "end">>, <<"b", "a">>, <<"a", "a">> >>

\* the graph of the doctest of ChinesePostmanPath.__init__, keys 0..14 in this order
Scenario15 ==
    << <<"start", "a">>, <<"a", "b">>, <<"b", "c">>, <<"b", "c">>, <<"c", "d">>,
       <<"c", "e">>, <<"c", "f">>, <<"c", "g">>, <<"d", "h">>, <<"f", "h">>,
       <<"g", "h">>, <<"h", "e">>, <<"h", "b">>, <<"e", "end">>, <<"end", "start">> >>

\* the graph of the doctest of DuplicationsFinder.find_matching: the same without h -> b
Scenario14 ==
    << <<"start", "a">>, <<"a", "b">>, <<"b", "c">>, <<"b", "c">>, <<"c", "d">>,
       <<"c", "e">>, <<"c", "f">>, <<"c", "g">>, <<"d", "h">>, <<"f", "h">>,
       <<"g", "h">>, <<"h", "e">>, <<"e", "end">>, <<"end", "start">> >>

\* the nodes a direct caller designates as start and end; the handler always
\* passes 'start' and 'end'
Designated == {<<"start", "end">>, <<"a", "b">>}

Init ==
    /\ \/ /\ caller = "parse"
          /\ edges \in EdgeLists(Pairs, MaxEdges) \cup {Scenario14, Scenario15}
          /\ g = <<>>
          /\ start = "start"
          /\ end = "end"
          /\ pc = "request"
       \/ /\ caller = "direct"
          /\ edges = <<>>
          /\ g \in {Keyed(l, b) : l \in EdgeLists(Pairs, MaxEdges), b \in 1..MaxKeyBase}
          /\ \E d \in Designated : start = d[1] /\ end = d[2]
          /\ pc = "find_tour"
    /\ orig = g
    /\ distances = <<>>
    /\ paths = <<>>
    /\ left_set = <<>>
    /\ right_set = <<>>
    /\ matching = <<>>
    /\ shortest_tour = NoneTour
    /\ resp = NoResp
    /\ query = NoQuery
    /\ removed = NoEdge
    /\ err = ""

\* an exception leaves find_tour: the handler's except clause answers with the
\* error, a direct caller sees it raised
Raise(e) ==
    /\ err' = e
    /\ IF caller = "parse"
       THEN /\ pc' = "responded"
            /\ resp' = [success |-> FALSE, paths |-> <<>>, error |-> e]
       ELSE /\ pc' = "raised"
            /\ resp' = resp

\* parse(), up to the construction of ChinesePostmanPath(mdg, 'start', 'end')
app_parse_build ==
    /\ pc = "request"
    /\ LET mdg == AddEdges(edges)
       IN  IF edges = <<>>
           THEN \* edges is a required field: the form does not validate
                /\ resp' = [success |-> FALSE, paths |-> <<>>, error |-> "invalid fields"]
                /\ pc' = "responded"
                /\ UNCHANGED <<g, orig, err>>
           ELSE IF "start" \notin Range(Nodes(mdg)) \/ "end" \notin Range(Nodes(mdg))
           THEN /\ g' = mdg
                /\ orig' = orig
                /\ Raise("The provided graph needs to have 'start' and 'end' nodes")
           ELSE /\ g' = WithReturnEdge(mdg)
                /\ orig' = WithReturnEdge(mdg)
                /\ pc' = "find_tour"
                /\ UNCHANGED <<resp, err>>
    /\ UNCHANGED <<caller, edges, start, end, distances, paths, left_set, right_set,
                   matching, shortest_tour, query, removed>>

\* find_tour: self.s_paths = shortest_paths.ShortestPaths(self.g)
find_tour_shortest_paths ==
    /\ pc = "find_tour"
    /\ IF Size(g) = 0
       THEN /\ Raise("MultiDiGraph is empty")
            /\ UNCHANGED <<distances, paths>>
       ELSE /\ distances' = ShortestPaths_parse(g).d
            /\ paths' = ShortestPaths_parse(g).p
            /\ pc' = "find_matching"
            /\ UNCHANGED <<resp, err>>
    /\ UNCHANGED <<caller, edges, g, start, end, left_set, right_set, matching,
                   shortest_tour, query, orig, removed>>

\* duplicate_paths: self.dup_finder = DuplicationsFinder(self.g, self.s_paths);
\* self.to_duplicate = self.dup_finder.matching
find_matching ==
    /\ pc = "find_matching"
    /\ left_set' = LeftSet(g)
    /\ right_set' = RightSet(g)
    /\ \E m \in Matchings(LeftSet(g), RightSet(g)) :
         matching' = MatchingItems(LeftSet(g), RightSet(g), m)
    /\ pc' = "duplicate_paths"
    /\ UNCHANGED <<caller, edges, g, start, end, distances, paths, shortest_tour,
                   resp, query, orig, removed, err>>

\* duplicate_paths: the loops that insert the edges of the matched shortest paths
duplicate_paths ==
    /\ pc = "duplicate_paths"
    /\ LET out == DuplicatePairs(g, paths, MatchedPairs(matching))
       IN  /\ g' = out.g
           /\ IF out.err # ""
              THEN Raise(out.err)
              ELSE /\ pc' = "remove_edge"
                   /\ UNCHANGED <<resp, err>>
    /\ UNCHANGED <<caller, edges, start, end, distances, paths, left_set, right_set,
                   matching, shortest_tour, query, orig, removed>>

\* find_tour: self.g.remove_edge('end', 'start')
remove_edge ==
    /\ pc = "remove_edge"
    /\ IF RemovableEdges(g) = {}
       THEN /\ Raise("NetworkXError")
            /\ UNCHANGED <<g, removed>>
       ELSE /\ \E i \in RemovableEdges(g) :
                 /\ g' = RemoveAt(g, i)
                 /\ removed' = g[i]
            /\ pc' = "search"
            /\ UNCHANGED <<resp, err>>
    /\ UNCHANGED <<caller, edges, start, end, distances, paths, left_set, right_set,
                   matching, shortest_tour, query, orig>>

\* find_tour: self.shortest_tour = self.find_tour_recursive_helper(self.start, [], set())
find_tour_search ==
    /\ pc = "search"
    /\ shortest_tour' = find_tour_recursive_helper(g, start, <<>>, {})
    /\ pc' = "constructed"
    /\ UNCHANGED <<caller, edges, g, start, end, distances, paths, left_set, right_set,
                   matching, resp, query, orig, removed, err>>

\* parse(), from the tour to the response: iterating over None raises TypeError
app_parse_split ==
    /\ pc = "constructed"
    /\ caller = "parse"
    /\ IF shortest_tour.none
       THEN Raise("TypeError")
       ELSE /\ resp' = [success |-> TRUE,
                        paths |-> SplitTour(shortest_tour.path),
                        error |-> ""]
            /\ pc' = "responded"
            /\ err' = err
    /\ UNCHANGED <<caller, edges, g, start, end, distances, paths, left_set, right_set,
                   matching, shortest_tour, query, orig, removed>>

Next ==
    \/ app_parse_build
    \/ find_tour_shortest_paths
    \/ find_matching
    \/ duplicate_paths
    \/ remove_edge
    \/ find_tour_search
    \/ app_parse_split

Spec == Init /\ [][Next]_vars

----------------------------------------------------------------------------
(* Reference notions the claims are stated with. *)

\* the nodes one edge away from a node of S
Step(gr, S) == {gr[i][2] : i \in {j \in 1..Len(gr) : gr[j][1] \in S}}

RECURSIVE WalkEnds(_, _, _)
\* the nodes a directed walk of exactly k edges from u ends in
WalkEnds(gr, u, k) == IF k = 0 THEN {u} ELSE Step(gr, WalkEnds(gr, u, k - 1))

\* the least number of edges of a directed walk from u to v (u # v); None when there is none
HopDistance(gr, u, v) ==
    LET n == Len(Nodes(gr))
        ks == {k \in 1..n : v \in WalkEnds(gr, u, k)}
    IN  IF ks = {} THEN None ELSE CHOOSE k \in ks : \A k2 \in ks : k <= k2

\* every node reaches every other node
StronglyConnected(gr) ==
    \A u \in Range(Nodes(gr)), v \in Range(Nodes(gr)) :
        u # v => HopDistance(gr, u, v) # None

\* no two edges of the graph carry the same key
KeysDistinct(gr) == \A i \in 1..Len(gr), j \in 1..Len(gr) : i # j => gr[i][3] # gr[j][3]

\* in-degree equals out-degree at every node
Balanced(gr) == \A n \in Range(Nodes(gr)) : InDegree(gr, n) = OutDegree(gr, n)

\* how many edges of the path carry key k
Uses(path, k) == Cardinality({i \in 1..Len(path) : path[i][3] = k})

\* the edges of a path follow one another
IsWalk(path) == \A i \in 1..(Len(path) - 1) : path[i][2] = path[i + 1][1]

RECURSIVE PairsCost(_, _, _)
\* the sum of the shortest-path lengths of the pairs from the k-th on
PairsCost(d, pairs, k) ==
    IF k > Len(pairs) THEN 0
    ELSE get_shortest_path_length(d, pairs[k][1], pairs[k][2]) + PairsCost(d, pairs, k + 1)

\* the pairs the perfect matching m makes
PairsOf(left, right, m) == Tuple([i \in 1..Len(left) |-> <<left[i][1], right[m[i]][1]>>])

\* every left copy reaches every right copy
AllReachable(d, left, right) ==
    \A i \in 1..Len(left), j \in 1..Len(right) :
        get_shortest_path_length(d, left[i][1], right[j][1]) # None

\* S with the nodes one edge away from it, in either direction
Around(gr, S) ==
    S \cup {gr[i][2] : i \in {j \in 1..Len(gr) : gr[j][1] \in S}}
      \cup {gr[i][1] : i \in {j \in 1..Len(gr) : gr[j][2] \in S}}

RECURSIVE Component(_, _, _)
\* the nodes within k edges of S, directions ignored
Component(gr, S, k) == IF k = 0 THEN S ELSE Around(gr, Component(gr, S, k - 1))

\* out-degree less in-degree
Surplus(gr, n) == OutDegree(gr, n) - InDegree(gr, n)

\* some walk from s uses every edge of the graph exactly once (Euler): the
\* edges hang together with s, and either every node is balanced or s has one
\* edge more going out, one other node one more coming in, the rest balanced
EulerWalkFrom(gr, s) ==
    \/ Size(gr) = 0
    \/ /\ Range(Nodes(gr)) \subseteq Component(gr, {s}, Len(gr))
       /\ \/ \A n \in Range(Nodes(gr)) : Surplus(gr, n) = 0
          \/ /\ Surplus(gr, s) = 1
             /\ \E t \in Range(Nodes(gr)) \ {s} :
                   /\ Surplus(gr, t) = -1
                   /\ \A n \in Range(Nodes(gr)) \ {s, t} : Surplus(gr, n) = 0

\* path is a walk from s that uses every edge of the graph exactly once
IsEulerWalk(gr, s, path) ==
    /\ Len(path) = Size(gr)
    /\ IsWalk(path)
    /\ Len(path) > 0 => path[1][1] = s
    /\ \A i \in 1..Len(path) : path[i] \in Range(gr)
    /\ \A i \in 1..Len(path), j \in 1..Len(path) : i # j => path[i] # path[j]

\* ChinesePostmanPath(g, start, end) has returned or raised
Over == pc \in {"constructed", "responded", "raised"}

\* the query was answered, not refused
Answered(op) == pc = "sp_queried" /\ query.op = op /\ err = ""

----------------------------------------------------------------------------
(* The claims. *)

\* C4: for distinct nodes u, v of the graph, get_shortest_path_length(u, v) is the
\* least number of edges of a directed walk from u to v, and None exactly when
\* no such walk exists.
C4_LengthIsHopDistance ==
    (Answered("length") /\ query.u # query.v)
        => query.length = HopDistance(g, query.u, query.v)

\* a length of three hops, which two relaxations had to build
C4_Witness ==
    Answered("length") /\ query.u # query.v /\ query.length = 3

\* C5: for a pair with a finite distance, get_shortest_path(u, v) is not None:
\* it starts with u, ends with v, steps along edges of the graph, and has
\* get_shortest_path_length(u, v) edges.
C5_PathIsShortestWalk ==
    (Answered("path") /\ get_shortest_path_length(distances, query.u, query.v) # None)
        => /\ query.path # NonePath
           /\ query.path[1] = query.u
           /\ query.path[Len(query.path)] = query.v
           /\ \A i \in 1..(Len(query.path) - 1) : HasEdge(g, query.path[i], query.path[i + 1])
           /\ Len(query.path) - 1 = get_shortest_path_length(distances, query.u, query.v)

\* a path of three edges
C5_Witness ==
    /\ Answered("path")
    /\ get_shortest_path_length(distances, query.u, query.v) = 3
    /\ Len(query.path) = 4

\* C6: get_shortest_path_length(n, n) is 0 for every node n of the graph.
C6_SelfLengthIsZero ==
    (Answered("length") /\ query.u = query.v) => query.length = 0

\* C1: for a connected graph with pairwise distinct keys and an end -> start
\* edge, find_tour yields a tour in which every key of the mutated graph occurs
\* exactly once: the tour has as many edges as the graph and the same keys.
C1_TourUsesEveryKeyOnce ==
    (Over /\ KeysDistinct(orig) /\ StronglyConnected(orig) /\ HasEdge(orig, "end", "start"))
        => /\ ~shortest_tour.none
           /\ Len(shortest_tour.path) = Size(g)
           /\ Keys(shortest_tour.path) = Keys(g)
           /\ \A k \in Keys(g) : Uses(shortest_tour.path, k) = 1

\* C2: once duplicate_paths has inserted the edges of every matched shortest
\* path, and before remove_edge, every node has in-degree equal to out-degree.
C2_BalancedAfterDuplication ==
    (pc = "remove_edge" /\ AllReachable(distances, left_set, right_set)) => Balanced(g)

\* C3: the matching is a perfect matching of left_set and right_set of least
\* total shortest-path length.
C3_MatchingHasLeastCost ==
    (pc = "duplicate_paths" /\ caller = "parse" /\ AllReachable(distances, left_set, right_set))
        => \A m \in Matchings(left_set, right_set) :
               PairsCost(distances, MatchedPairs(matching), 1)
                   <= PairsCost(distances, PairsOf(left_set, right_set, m), 1)

\* C7: the end -> start edge that find_tour removes is the one the caller
\* supplied, never a copy that duplicate_paths inserted.
C7_RemovesTheCallersEdge ==
    (caller = "parse" /\ removed # NoEdge)
        => \E i \in 1..Len(orig) : orig[i] = removed

\* C8: every list the handler splits the tour into is a non-empty walk that
\* leaves start with its first edge and enters end with its last; the tour
\* itself ends at end.
C8_SegmentsRunFromStartToEnd ==
    (pc = "responded" /\ resp.success)
        => /\ \A s \in 1..Len(resp.paths) :
                 LET seg == resp.paths[s]
                 IN  /\ Len(seg) >= 1
                     /\ seg[1][1] = "start"
                     /\ seg[Len(seg)][2] = "end"
                     /\ \A i \in 1..(Len(seg) - 1) : seg[i][2] = seg[i + 1][1]
           /\ shortest_tour.path[Len(shortest_tour.path)][2] = "end"

\* a tour with a restart in it: the handler answers with two lists or more
C8_Witness ==
    pc = "responded" /\ resp.success /\ Len(resp.paths) >= 2

\* what C9 asserts of a scenario: n edges inserted, a tour of len edges from
\* start that splits into laps lists, every key but that of the end -> start
\* edge walked once, and that one once at most
ScenarioOutcome(n, len, laps) ==
    /\ resp.success
    /\ Size(g) + 1 - Len(orig) = n
    /\ Len(shortest_tour.path) = len
    /\ shortest_tour.path[1][1] = "start"
    /\ IsWalk(shortest_tour.path)
    /\ \A i \in 1..Len(orig) :
           IF orig[i][1] = "end" /\ orig[i][2] = "start"
           THEN Uses(shortest_tour.path, orig[i][3]) <= 1
           ELSE Uses(shortest_tour.path, orig[i][3]) = 1
    /\ Len(resp.paths) = laps

\* C9, as amended: for the 14 edges of the scenario the tour has 29 edges, 16 of
\* them duplicated, and splits into 4 lists; 21, 7 and 2 are the figures of the
\* 15-edge graph that has h -> b as well.
C9_ScenarioFigures ==
    /\ (pc = "responded" /\ edges = Scenario14) => ScenarioOutcome(16, 29, 4)
    /\ (pc = "responded" /\ edges = Scenario15) => ScenarioOutcome(7, 21, 2)

C9_Witness ==
    pc = "responded" /\ edges = Scenario14 /\ resp.success /\ Len(shortest_tour.path) = 29

\* C9, as stated: for the 14 edges of the scenario the tour has 21 edges, 7 of
\* them duplicated, starts at start, walks every original key exactly once and
\* splits into 2 lists.
C9_AsStated ==
    (pc = "responded" /\ edges = Scenario14)
        => /\ resp.success
           /\ Size(g) + 1 - Len(orig) = 7
           /\ Len(shortest_tour.path) = 21
           /\ shortest_tour.path[1][1] = "start"
           /\ \A i \in 1..Len(orig) : Uses(shortest_tour.path, orig[i][3]) = 1
           /\ Len(resp.paths) = 2

\* C10: a DuplicationsFinder is never constructed with a matching that pairs a
\* deficit node with a surplus node it cannot reach.
C10_NoUnreachablePairMatched ==
    (pc = "duplicate_paths" /\ caller = "parse")
        => \A k \in 1..Len(MatchedPairs(matching)) :
               get_shortest_path_length(distances, MatchedPairs(matching)[k][1],
                                        MatchedPairs(matching)[k][2]) # None

\* C11: when the keys of the graph handed in are pairwise distinct, every edge
\* duplicate_paths inserts gets a key no edge of the graph carries: the edge
\* count grows by one for each edge of each matched shortest path, and the keys
\* are pairwise distinct once the duplication is over.
C11_InsertedKeysAreFresh ==
    (pc = "remove_edge" /\ KeysDistinct(orig))
        => /\ KeysDistinct(g)
           /\ Size(g) = Len(orig) + PairsCost(distances, MatchedPairs(matching), 1)

\* C12: started at start with an empty path, find_tour_recursive_helper returns
\* a walk from start that uses every edge exactly once whenever the graph has
\* one, and None only when it has none.
C12_SearchFindsAnEulerWalk ==
    pc = "constructed"
        => IF EulerWalkFrom(g, start)
           THEN ~shortest_tour.none /\ IsEulerWalk(g, start, shortest_tour.path)
           ELSE shortest_tour.none

\* C13: for designated start and end nodes of the graph with an edge from end
\* to start, find_tour removes one edge from the designated end to the
\* designated start and leaves every other edge as it was; the walk the search
\* returns begins at the designated start.
C13_RemovesDesignatedReturnEdge ==
    [][/\ (/\ pc = "remove_edge"
           /\ {start, end} \subseteq Range(Nodes(g))
           /\ HasEdge(g, end, start))
          => /\ \E i \in 1..Len(g) :
                   g[i][1] = end /\ g[i][2] = start /\ g' = RemoveAt(g, i)
             /\ Size(g') = Size(g) - 1
             /\ pc' = "search"
       /\ (pc = "search" /\ ~shortest_tour'.none /\ Len(shortest_tour'.path) > 0)
          => shortest_tour'.path[1][1] = start]_vars

====
